---- MODULE Spec2Model ----
(***************************************************************************)
(* A model of the django-stubs YAML test driver                            *)
(* (scripts/test_helpers/django_stubs_test_driver).                        *)
(*                                                                         *)
(* Four parts of the driver are modelled, each with its own specification: *)
(*   SpecArgs    ScenarioRunner._adjust_mypy_args        (scenario.py)     *)
(*   SpecCache   SharedCache.remove_cache_for, teardown  (scenario.py,     *)
(*               plugin.py)                                                *)
(*   SpecCompile ItemDefinition.from_yaml, _parse_parametrized             *)
(*               (definition.py), YamlTestFile.collect (collect.py)        *)
(*   SpecApps    change_installed_apps                   (scenario.py)     *)
(* Every specification constrains all the variables; the variables of the  *)
(* parts it does not exercise keep their idle values.                      *)
(***************************************************************************)
EXTENDS Integers, Sequences, FiniteSets, TLC

VARIABLES
    \* ---- ScenarioRunner._adjust_mypy_args
    options,          \* the RunOptions handed in: [args, do_followup]
    disable_cache,    \* scenario.info.disable_cache
    shared_cache,     \* scenario.info.shared_cache: NoCache or the cache root
    is_daemon,        \* default_program_runner_maker.is_daemon
    os_name,          \* os.name
    adjusted,         \* the RunOptions returned (the ones handed in, before the call)
    args_pc,          \* "start" before the call of _adjust_mypy_args, "done" after
    \* ---- SharedCache.remove_cache_for and the clean_shared_cache cleaner
    files,            \* the files on disk (absolute paths)
    dirs,             \* the directories on disk (absolute paths), "/" left out
    cleaned,          \* runs.known_files of the last teardown, <<>> before any
    removed_files,    \* the files the last teardown unlinked
    removed_dirs,     \* the directories the last teardown removed
    \* ---- ItemDefinition.from_yaml driven by YamlTestFile.collect
    gen_pc,           \* where the from_yaml generator stands
    doc_idx,          \* the documents of the batch read so far
    raw_item,         \* the document being compiled
    params,           \* the mappings of its `parametrized` read so far
    by_keys,          \* _parse_parametrized's by_keys
    parametrized,     \* list(_parse_parametrized(parametrized))
    var_idx,          \* the variants of the document gone through so far
    yielded,          \* item_params of the clones the document has yielded
    n_items,          \* the items collect() has yielded, over all documents
    error,            \* the exception from_yaml raised, "none" if none
    \* ---- Scenario.determine_django_settings_content.change_installed_apps
    installed_apps,   \* scenario.info.installed_apps, as the case declares them
    settings_apps,    \* the elements of the INSTALLED_APPS list of the settings
    apps_pc,          \* "start" before the list is changed, "done" after,
                      \* "kept" when the list is left to the custom settings
    custom_has_apps,  \* custom_settings is set and holds "INSTALLED_APPS"
    \* ---- Scenario.determine_django_settings_content, the settings text
    custom_settings,  \* scenario.info.custom_settings, <<>> when not set
    settings_exists,  \* the settings file is on disk
    settings_file,    \* its text
    monkeypatch,      \* scenario.info.monkeypatch
    synth_runs,       \* the synthesis runs done
    \* ---- ItemDefinition.runtest
    item_params,      \* self.item_params of the variant
    main,             \* self.main
    case_files,       \* self.files: (path, content) pairs
    written,          \* what builder.on(path).set(...) has set, by path
    run_pc,           \* "start" before runtest writes the files, "done" after
    \* ---- ScenarioBuilder.set_mypy_config
    mypy_configuration_content,  \* scenario.info.mypy_configuration_content
    django_settings_module,      \* scenario.info.django_settings_module
    mypy_config,                 \* the fragment of the last set_mypy_config call
    config_calls,                \* the set_mypy_config calls done
    \* ---- ScenarioRunner.execute_static_checking and sys.path
    sys_path,             \* sys.path
    options_cwd,          \* str(options.cwd) of the scenario being checked
    options_cwd_in_path,  \* the local of line 184
    path_pc,              \* "idle", "synthesizing", "returned" or "raised"
    scenarios_checked,    \* the execute_static_checking calls begun
    sys_path_at_start     \* sys.path before the first scenario

argsVars == <<options, disable_cache, shared_cache, is_daemon, os_name, adjusted, args_pc>>

cacheVars == <<files, dirs, cleaned, removed_files, removed_dirs>>

compileVars ==
    <<gen_pc, doc_idx, raw_item, params, by_keys, parametrized, var_idx, yielded, n_items, error>>

appsVars == <<installed_apps, settings_apps, apps_pc, custom_has_apps>>

settingsVars ==
    <<custom_settings, settings_exists, settings_file, monkeypatch, synth_runs>>

runVars == <<item_params, main, case_files, written, run_pc>>

configVars ==
    <<mypy_configuration_content, django_settings_module, mypy_config, config_calls>>

pathVars ==
    <<sys_path, options_cwd, options_cwd_in_path, path_pc, scenarios_checked,
      sys_path_at_start>>

vars == <<argsVars, cacheVars, compileVars, appsVars, settingsVars, runVars, configVars, pathVars>>

\* ------------------------------------------------------------------------
\* Python list helpers
\* ------------------------------------------------------------------------

\* x in s
Contains(s, x) == \E i \in 1..Len(s) : s[i] = x

\* s.index(x), 1-based: the first position holding x (x must occur)
ListIndex(s, x) == CHOOSE i \in 1..Len(s) : s[i] = x /\ \A j \in 1..(i - 1) : s[j] # x

\* s.pop(i) for a 1-based i: the list without its i-th element
ListPop(s, i) == SubSeq(s, 1, i - 1) \o SubSeq(s, i + 1, Len(s))

\* s.remove(x): the list without the first occurrence of x (x must occur)
ListRemove(s, x) == ListPop(s, ListIndex(s, x))

\* s.count(x)
ListCount(s, x) == Cardinality({i \in 1..Len(s) : s[i] = x})

\* All sequences over S of length at most n
SeqUpTo(S, n) == UNION {[1..k -> S] : k \in 0..n}

\* ------------------------------------------------------------------------
\* ScenarioRunner._adjust_mypy_args (scenario.py 212-244)
\* ------------------------------------------------------------------------

\* The longest starting argument list explored
MaxArgs == 4

NoCache == "None"

\* str(shared_cache.cache_dir): the session's temporary directory made by the
\* shared_cache fixture; no starting argument list names it
SharedCacheDir == "/tmp/shared_cache0"

\* The argument tokens a starting argument list is made of
ArgTokens == {"--cache-dir", "--incremental", "--no-incremental", "/old"}

OsNames == {"posix", "nt"}

\* lines 230-233: the platform's null cache-dir target
NullCacheDir(os) == IF os = "nt" THEN "nul" ELSE "/dev/null"

\* lines 217-221: drop the first "--cache-dir" and the element after it, when
\* there is an element after it
RemoveCacheDirPair(a) ==
    IF Contains(a, "--cache-dir")
    THEN LET cd_idx == ListIndex(a, "--cache-dir")
         IN  IF Len(a) > cd_idx
             THEN ListPop(ListPop(a, cd_idx), cd_idx)
             ELSE a
    ELSE a

\* lines 224-233 without the is_daemon test of line 224
DisabledModeArgsIgnoringDaemon(a, daemon, os) ==
    LET a1 == IF Contains(a, "--incremental") THEN ListRemove(a, "--incremental") ELSE a
        a2 == IF ~Contains(a1, "--no-incremental") THEN Append(a1, "--no-incremental") ELSE a1
    IN  a2 \o <<"--cache-dir", NullCacheDir(os)>>

\* lines 224-233: the disabled mode's arguments
DisabledModeArgs(a, daemon, os) ==
    LET a1 == IF ~daemon /\ Contains(a, "--incremental")
              THEN ListRemove(a, "--incremental") ELSE a
        a2 == IF ~daemon /\ ~Contains(a1, "--no-incremental")
              THEN Append(a1, "--no-incremental") ELSE a1
    IN  a2 \o <<"--cache-dir", NullCacheDir(os)>>

\* lines 237-242: the shared mode's arguments
SharedModeArgs(a, daemon, cache_dir) ==
    LET a1 == IF ~daemon /\ ~Contains(a, "--incremental")
              THEN Append(a, "--incremental") ELSE a
        a2 == IF ~daemon /\ Contains(a1, "--no-incremental")
              THEN ListRemove(a1, "--no-incremental") ELSE a1
    IN  a2 \o <<"--cache-dir", cache_dir>>

\* lines 212-244 with the shared mode applied after the disabled mode
\* ("if" for the "elif" of line 236)
adjust_mypy_args_both_modes(o, disable, shared, daemon, os) ==
    LET a0 == IF disable \/ shared # NoCache THEN RemoveCacheDirPair(o.args) ELSE o.args
        a1 == IF disable THEN DisabledModeArgs(a0, daemon, os) ELSE a0
        a2 == IF shared # NoCache THEN SharedModeArgs(a1, daemon, shared) ELSE a1
    IN  [args |-> a2, do_followup |-> IF disable THEN FALSE ELSE o.do_followup]

\* lines 212-244
_adjust_mypy_args(o, disable, shared, daemon, os) ==
    LET a0 == IF disable \/ shared # NoCache THEN RemoveCacheDirPair(o.args) ELSE o.args
    IN  IF disable
        THEN [args |-> DisabledModeArgs(a0, daemon, os), do_followup |-> FALSE]
        ELSE IF shared # NoCache
        THEN [args |-> SharedModeArgs(a0, daemon, shared), do_followup |-> o.do_followup]
        ELSE [args |-> a0, do_followup |-> o.do_followup]

\* ------------------------------------------------------------------------
\* SharedCache.remove_cache_for (scenario.py 42-61) and the clean_shared_cache
\* cleaner (plugin.py 79-86)
\*
\* A path is a sequence of components and a component is the sequence of the
\* pieces its name is made of, joined by ".": "pkg/a.b.py" is
\* <<<<"pkg">>, <<"a", "b", "py">>>>. No piece is empty, so a name has a suffix
\* exactly when it has two pieces or more (pathlib's PurePath.suffix).
\* ------------------------------------------------------------------------

\* The deepest package directory of a source path
MaxDepth == 1

\* The most known files one teardown evicts
MaxKnown == 2

\* SharedCache.cache_dir: the session's directory, /shared_cache
cache_dir == <<<<"shared_cache">>>>

\* ".".join([str(part) for part in sys.version_info[:2]]) (line 43)
VersionDir == <<"3", "12">>

\* The file names of the sources: a.py and a.b.py
SourceNames == {<<"a", "py">>, <<"a", "b", "py">>}

\* The package directories of the sources: "", "pkg", "pkg/pkg", ...
PackageDirs == UNION {[1..k -> {<<"pkg">>}] : k \in 0..MaxDepth}

\* The relative source paths a scenario touches
RelativeSourcePaths ==
    {[absolute |-> FALSE, parts |-> Append(d, n)] : d \in PackageDirs, n \in SourceNames}

\* An absolute source path, /abs/a.py
AbsoluteSourcePaths == {[absolute |-> TRUE, parts |-> <<<<"abs">>, <<"a", "py">>>>]}

SourcePaths == RelativeSourcePaths \cup AbsoluteSourcePaths

\* pathlib's "/" operator: an absolute right operand replaces the left one
JoinPath(base, path) == IF path.absolute THEN path.parts ELSE base \o path.parts

\* PurePath.stem of a name: the name without its last suffix
Stem(name) == IF Len(name) >= 2 THEN SubSeq(name, 1, Len(name) - 1) ELSE name

\* PurePath.with_suffix: the last suffix of the path's name replaced by
\* `suffix` (<<>> for "", <<"data", "json">> for ".data.json")
with_suffix(path, suffix) == [path EXCEPT ![Len(path)] = Stem(@) \o suffix]

\* PurePath.parent
Parent(path) == SubSeq(path, 1, Len(path) - 1)

\* PurePath.parents: the ancestors, the nearest first, down to "/" (<<>>)
Parents(path) == [k \in 1..Len(path) |-> SubSeq(path, 1, Len(path) - k)]

\* PurePath.is_relative_to
is_relative_to(path, other) ==
    Len(other) <= Len(path) /\ SubSeq(path, 1, Len(other)) = other

\* list(parent_dir.iterdir()): the entries of a directory
Entries(d, fs_files, fs_dirs) == {e \in fs_files \cup fs_dirs : Len(e) >= 1 /\ Parent(e) = d}

\* line 43: the cache file of a source path
CacheFile(path) == with_suffix(JoinPath(Append(cache_dir, VersionDir), path), <<>>)

\* lines 45 and 48: the two files remove_cache_for unlinks
data_json_file(path) == with_suffix(CacheFile(path), <<"data", "json">>)
meta_json_file(path) == with_suffix(CacheFile(path), <<"meta", "json">>)

\* lines 51-61: the directories left by the walk over cache_file.parents from
\* the k-th ancestor on
RECURSIVE PruneParents(_, _, _, _)
PruneParents(ps, k, fs_files, fs_dirs) ==
    IF k > Len(ps) THEN fs_dirs
    ELSE IF ps[k] = cache_dir \/ ~is_relative_to(ps[k], cache_dir) THEN fs_dirs
    ELSE IF ps[k] \notin fs_dirs THEN PruneParents(ps, k + 1, fs_files, fs_dirs)
    ELSE IF Entries(ps[k], fs_files, fs_dirs) # {} THEN fs_dirs
    ELSE PruneParents(ps, k + 1, fs_files, fs_dirs \ {ps[k]})

\* lines 42-61: the file system remove_cache_for(path) leaves
remove_cache_for(path, fs) ==
    LET left == fs.files \ {data_json_file(path), meta_json_file(path)}
    IN  [files |-> left,
         dirs  |-> PruneParents(Parents(CacheFile(path)), 1, left, fs.dirs)]

\* plugin.py 83-84: remove_cache_for for each known file, in order
RECURSIVE clean_shared_cache(_, _, _)
clean_shared_cache(known_files, k, fs) ==
    IF k > Len(known_files) THEN fs
    ELSE clean_shared_cache(known_files, k + 1, remove_cache_for(known_files[k], fs))

\* The cache entry the checker keeps for a relative source path (the on-disk
\* cache layout): <cache root>/<major>.<minor>/<path without its extension>
\* with the suffixes .data.json and .meta.json
CacheEntryBase(path) ==
    LET full == Append(cache_dir, VersionDir) \o path.parts
    IN  [full EXCEPT ![Len(full)] = Stem(@)]
CacheEntry(path) ==
    LET base == CacheEntryBase(path)
    IN  {[base EXCEPT ![Len(base)] = @ \o <<"data", "json">>],
         [base EXCEPT ![Len(base)] = @ \o <<"meta", "json">>]}

\* The directories above a file, "/" left out
Ancestors(path) == {SubSeq(path, 1, k) : k \in 1..(Len(path) - 1)}

\* A file outside the cache root that is no cache entry: /abs/a.data.json
OutsideFiles == {<<<<"abs">>, <<"a", "data", "json">>>>}

\* The known files of a teardown: up to MaxKnown distinct source paths
KnownFiles ==
    {ks \in SeqUpTo(SourcePaths, MaxKnown) :
        Len(ks) >= 1 /\ \A i, j \in 1..Len(ks) : i # j => ks[i] # ks[j]}


\* ------------------------------------------------------------------------
\* ItemDefinition.from_yaml, _parse_parametrized, _run_skip (definition.py)
\*
\* A string the code takes apart (a parameter key, a case name) is the
\* sequence of its characters.
\* ------------------------------------------------------------------------

\* The most documents of a batch
MaxDocs == 2

\* The most mappings of one `parametrized` list
MaxParams == 2

\* ord() of the characters in use
Ord(c) ==
    CASE c = " " -> 32 [] c = "," -> 44 [] c = "-" -> 45 [] c = "_" -> 95
      [] c = "a" -> 97 [] c = "e" -> 101 [] c = "f" -> 102 [] c = "i" -> 105
      [] c = "l" -> 108 [] c = "n" -> 110 [] c = "o" -> 111 [] c = "y" -> 121

\* s < t for two strings: the order sorted() puts them in
StrLess(s, t) ==
    \/ Len(s) < Len(t) /\ SubSeq(t, 1, Len(s)) = s
    \/ \E i \in 1..Len(s) :
           /\ i <= Len(t)
           /\ SubSeq(s, 1, i - 1) = SubSeq(t, 1, i - 1)
           /\ Ord(s[i]) < Ord(t[i])

\* sorted(S) for a set of strings
RECURSIVE Sorted(_)
Sorted(S) ==
    IF S = {} THEN <<>>
    ELSE LET least == CHOOSE s \in S : \A t \in S \ {s} : StrLess(s, t)
         IN  <<least>> \o Sorted(S \ {least})

\* ", ".join(strs)
RECURSIVE JoinCommaSpace(_)
JoinCommaSpace(strs) ==
    IF Len(strs) = 0 THEN <<>>
    ELSE IF Len(strs) = 1 THEN strs[1]
    ELSE strs[1] \o <<",", " ">> \o JoinCommaSpace(Tail(strs))

\* s.startswith(prefix)
StartsWith(s, prefix) == Len(s) >= Len(prefix) /\ SubSeq(s, 1, Len(prefix)) = prefix

\* str.isidentifier over the characters in use: a letter or "_", then
\* letters or "_"
isidentifier(s) ==
    /\ Len(s) >= 1
    /\ \A i \in 1..Len(s) : s[i] = "_" \/ (Ord(s[i]) >= 97 /\ Ord(s[i]) <= 122)

\* The parameter keys: "__line__" (SafeLineLoader puts it into every mapping),
\* "_y", "a" and "_y, a"
KeyLine == <<"_", "_", "l", "i", "n", "e", "_", "_">>
KeyUnderscoreY == <<"_", "y">>
KeyA == <<"a">>
KeyYCommaA == <<"_", "y", ",", " ", "a">>
ParamKeys == {KeyLine, KeyUnderscoreY, KeyA, KeyYCommaA}

ParamValues == {1, 2}

\* The mappings of a `parametrized` list: any keys, one value for all of them
Mappings == {[k \in S |-> v] : S \in SUBSET ParamKeys, v \in ParamValues}

\* line 24: keys = ", ".join(sorted(param))
KeysOf(param) == JoinCommaSpace(Sorted(DOMAIN param))

\* line 32 with startswith("_") for startswith("__")
StripDunderKeysAnyUnderscore(param) ==
    [k \in {x \in DOMAIN param : ~StartsWith(x, <<"_">>)} |-> param[k]]

\* line 32: {k: v for k, v in param.items() if not k.startswith("__")}
StripDunderKeys(param) ==
    [k \in {x \in DOMAIN param : ~StartsWith(x, <<"_", "_">>)} |-> param[k]]

\* line 25: by_keys and keys not in by_keys
KeysMismatch(bk, keys) == DOMAIN bk # {} /\ keys \notin DOMAIN bk

\* line 32: by_keys[keys].append(...) on the defaultdict
AppendByKeys(bk, keys, item) ==
    IF keys \in DOMAIN bk
    THEN [bk EXCEPT ![keys] = Append(@, item)]
    ELSE [k \in DOMAIN bk \cup {keys} |-> IF k = keys THEN <<item>> ELSE bk[k]]

\* The empty dict
EmptyDict == [k \in {} |-> <<>>]

\* The skip values of a document: the booleans, the strings "True" and
\* "False", and two expressions
SkipValues ==
    {[is_bool |-> TRUE, text |-> "True"], [is_bool |-> TRUE, text |-> "False"],
     [is_bool |-> FALSE, text |-> "True"], [is_bool |-> FALSE, text |-> "False"],
     [is_bool |-> FALSE, text |-> "sys.platform == 'win32'"],
     [is_bool |-> FALSE, text |-> "sys.platform != 'win32'"]}

\* sys.platform of the machine the driver runs on
sys_platform == "linux"

\* line 50: bool(eval(skip, ...)) for the two expressions
EvalSkip(text) ==
    IF text = "sys.platform == 'win32'" THEN sys_platform = "win32"
    ELSE sys_platform # "win32"

\* lines 42-50
_run_skip(skip) ==
    IF skip.is_bool THEN skip.text = "True"
    ELSE IF skip.text = "True" THEN TRUE
    ELSE IF skip.text = "False" THEN FALSE
    ELSE EvalSkip(skip.text)

\* The names of the dataclass fields (line 93), those a document may carry
fields == {"case", "out", "main", "skip", "start", "regex", "mypy_config", "expect_fail",
           "monkeypatch", "disable_cache", "installed_apps", "custom_settings",
           "django_settings_module", "starting_lineno", "files",
           "environment_variables", "item_params"}

\* The case names: "foo" and "a-b"
CaseNames == {<<"f", "o", "o">>, <<"a", "-", "b">>}

\* The documents: a case name, a skip value and the other keys they carry
RawItems ==
    [case : CaseNames, skip : SkipValues, other_keys : {{"main"}, {"main", "mian"}}]

\* lines 134-138 asserting nothing
UnknownFieldIgnored(item) == FALSE

\* lines 134-138: the assert fails on a key that is no field
UnknownField(item) == \E k \in item.other_keys : k \notin fields

\* lines 79-81, __post_init__
InvalidCaseName(item) == ~isidentifier(item.case)

\* ------------------------------------------------------------------------
\* Scenario.determine_django_settings_content.change_installed_apps
\* (scenario.py 127-134)
\*
\* An element of a list is [type, value]: its Python type and its text.
\* ------------------------------------------------------------------------

\* The longest declared installed_apps list
MaxApps == 3

Str(text) == [type |-> "str", value |-> text]

ContentTypes == Str("django.contrib.contenttypes")

\* What a declared list is made of: three apps and an element that is no str
AppEntries == {ContentTypes, Str("a.app"), Str("b.app"), [type |-> "int", value |-> "1"]}

\* What the INSTALLED_APPS list of the settings holds before the change
ExistingApps == {<<>>, <<Str("existing.app")>>}

\* line 134: [... for app in value if isinstance(app, str)]
RECURSIVE OnlyStr(_)
OnlyStr(value) ==
    IF Len(value) = 0 THEN <<>>
    ELSE IF Head(value).type = "str" THEN <<Head(value)>> \o OnlyStr(Tail(value))
    ELSE OnlyStr(Tail(value))

\* lines 127-134 with the insert done whatever the list holds
change_installed_apps_always_inserts(values, declared) ==
    OnlyStr(<<ContentTypes>> \o declared)

\* lines 127-134: `values`, the elements the list holds, are not read
change_installed_apps(values, declared) ==
    LET value == IF ~Contains(declared, ContentTypes)
                 THEN <<ContentTypes>> \o declared
                 ELSE declared
    IN  OnlyStr(value)

\* ------------------------------------------------------------------------
\* Scenario.determine_django_settings_content, the settings text
\* (scenario.py 141-166)
\*
\* A text is a sequence of pieces: the two lines of the monkeypatch snippet,
\* the line break, and the two assignments the synthesis looks for. What
\* str.replace and `in` do on characters they do on pieces, for no piece is
\* part of another one's match.
\* ------------------------------------------------------------------------

\* The longest settings text a case brings
MaxText == 8

\* The most synthesis runs over one settings file
MaxRuns == 2

NL == "\n"
ImportLine == "import django_stubs_ext"
MonkeypatchLine == "django_stubs_ext.monkeypatch()"
InstalledAppsAssign == "INSTALLED_APPS=[]"
SecretKeyAssign == "SECRET_KEY = '1'"

\* line 161
monkeypatch_str == <<ImportLine, NL, MonkeypatchLine, NL>>

\* The texts a case brings as custom_settings or as its settings file
SourceTexts == SeqUpTo({ImportLine, MonkeypatchLine, NL}, MaxText)

\* str.replace(old, ""): the occurrences found from left to right, none
\* overlapping another, are taken out; the result is not searched again
RECURSIVE Replace(_, _)
Replace(text, old) ==
    IF Len(text) < Len(old) THEN text
    ELSE IF SubSeq(text, 1, Len(old)) = old
    THEN Replace(SubSeq(text, Len(old) + 1, Len(text)), old)
    ELSE <<Head(text)>> \o Replace(Tail(text), old)

\* lines 141-149: the default content; custom settings are what the text is
\* made from, an INSTALLED_APPS list is added to a content that has none
DefaultContent(custom) ==
    IF ~Contains(custom, InstalledAppsAssign)
    THEN custom \o <<NL, InstalledAppsAssign>>
    ELSE custom

\* lines 151-156: the changer works on the settings file when it is on disk
\* (custom settings unlink it, line 144) and on the default content otherwise;
\* its edit of the INSTALLED_APPS list leaves the other pieces as they are
AfterChange(custom, exists, file) ==
    IF exists /\ custom = <<>> THEN file ELSE DefaultContent(custom)

\* lines 158-159: SECRET_KEY is added when the finder has not met it
WithSecretKey(text) ==
    IF ~Contains(text, SecretKeyAssign) THEN text \o <<NL, SecretKeyAssign>> ELSE text

\* lines 161-164
WithMonkeypatch(text, toggle) ==
    LET removed == Replace(text, monkeypatch_str)
    IN  IF toggle THEN monkeypatch_str \o removed ELSE removed

\* lines 141-166
determine_django_settings_content(custom, exists, file, toggle) ==
    WithMonkeypatch(WithSecretKey(AfterChange(custom, exists, file)), toggle)

\* ------------------------------------------------------------------------
\* ItemDefinition.runtest (definition.py 161-185) and
\* ScenarioBuilder.render_template (scenario.py 262-267)
\*
\* A content is a sequence of pieces [kind, value]: a stretch of text or a
\* placeholder "{{ name }}". A value of item_params is [is_none, text].
\* ------------------------------------------------------------------------

\* The longest content
MaxPieces == 2

\* The most entries of `files`
MaxFiles == 2

Text(t) == [kind |-> "text", value |-> t]
Placeholder(name) == [kind |-> "var", value |-> name]

\* What contents are made of: text, a line break, and {{ a }}
Pieces == {Text("x"), Text(NL), Placeholder("a")}

Contents == SeqUpTo(Pieces, MaxPieces)

\* The values a variant gives: 1 and None
RenderValues == {[is_none |-> FALSE, text |-> "1"], [is_none |-> TRUE, text |-> ""]}

\* The item_params of a variant: `a` given or not
ItemParams == {EmptyDict} \cup {[k \in {"a"} |-> v] : v \in RenderValues}

\* The paths of `files`
FilePaths == {"a.py", "b.py"}

\* An entry of `files`; content may be None
FileEntries == [path : FilePaths, is_none : BOOLEAN, content : Contents]

\* line 265: {k: v if v is not None else "None" ...}, then rendered as str(v)
RenderedValue(v) == IF v.is_none THEN "None" ELSE v.text

\* jinja2 renders a placeholder as its value, an undefined name as ""
RenderPiece(piece, data) ==
    IF piece.kind = "var"
    THEN Text(IF piece.value \in DOMAIN data THEN RenderedValue(data[piece.value]) ELSE "")
    ELSE piece

\* jinja2 (keep_trailing_newline off) leaves out one line break ending the template
StripTrailingNewline(template) ==
    IF Len(template) >= 1 /\ template[Len(template)] = Text(NL)
    THEN SubSeq(template, 1, Len(template) - 1)
    ELSE template

\* line 263: _rendering_env.variable_start_string in template
HasMarker(template) == \E k \in 1..Len(template) : template[k].kind = "var"

\* scenario.py 262-267
render_template(template, data) ==
    IF HasMarker(template)
    THEN LET stripped == StripTrailingNewline(template)
         IN  [k \in 1..Len(stripped) |-> RenderPiece(stripped[k], data)]
    ELSE template

\* builder.on(path).set(content): the content of the path is set
SetFile(w, path, content) ==
    [p \in DOMAIN w \cup {path} |-> IF p = path THEN content ELSE w[p]]

\* definition.py 182-183: for path, content in self.files: set(content or "")
RECURSIVE SetFiles(_, _, _)
SetFiles(w, fs, k) ==
    IF k > Len(fs) THEN w
    ELSE SetFiles(SetFile(w, fs[k].path, IF fs[k].is_none THEN <<>> ELSE fs[k].content),
                  fs, k + 1)

\* ------------------------------------------------------------------------
\* ScenarioBuilder.set_mypy_config (scenario.py 269-289) and combine_ini_files
\* (scenario.py 23-31)
\*
\* An ini text is what ConfigParser reads from it: a mapping from section
\* names to mappings from option names to values. ConfigParser.write puts
\* out each section once, its header in brackets, and one line per option.
\* ------------------------------------------------------------------------

\* The most set_mypy_config calls on one scenario
MaxCalls == 2

MypySection == "mypy"
PluginSection == "mypy.plugins.django-stubs"

\* line 278: the text looked for
PluginHeader == "[mypy.plugins.django-stubs]"

\* The default mypy_configuration_content (lines 74-106), cut down to one option
DefaultConfiguration ==
    [sec \in {MypySection} |-> [opt \in {"incremental"} |-> "true"]]

\* The option mappings a case writes in [mypy]: a value may be any text, the
\* text of the header among them
CaseMypyOptions ==
    {EmptyDict} \cup {[opt \in {"x"} |-> v] : v \in {"true", PluginHeader}}

\* The option mappings a case writes in [mypy.plugins.django-stubs]
CasePluginOptions ==
    UNION {[opts -> {"case"}] : opts \in SUBSET {"django_settings_module", "strict_settings"}}

\* The fragments of a case: the empty text, and texts with one or both sections
Fragments ==
    {EmptyDict}
    \cup {[sec \in {MypySection} |-> o] : o \in CaseMypyOptions}
    \cup {[sec \in {PluginSection} |-> o] : o \in CasePluginOptions}
    \cup {[sec \in {MypySection, PluginSection} |->
              IF sec = MypySection THEN m ELSE o] :
              m \in CaseMypyOptions, o \in CasePluginOptions}

SettingsModules == {"mysettings", "other.settings"}

\* ConfigParser.read_string on a parser that holds `config`: the sections and
\* options of `content` are added, an option read again takes the new value
ReadString(config, content) ==
    [sec \in DOMAIN config \cup DOMAIN content |->
        IF sec \notin DOMAIN content THEN config[sec]
        ELSE IF sec \notin DOMAIN config THEN content[sec]
        ELSE [opt \in DOMAIN config[sec] \cup DOMAIN content[sec] |->
                 IF opt \in DOMAIN content[sec] THEN content[sec][opt]
                 ELSE config[sec][opt]]]

\* lines 23-31, for the two contents set_mypy_config hands in
combine_ini_files(first, second) == ReadString(ReadString(EmptyDict, first), second)

\* line 278: "[mypy.plugins.django-stubs]" in mypy_configuration_content, a
\* test on the text: the header of the section or a value that holds it
HeaderInText(config) ==
    \/ PluginSection \in DOMAIN config
    \/ \E sec \in DOMAIN config : \E opt \in DOMAIN config[sec] :
           config[sec][opt] = PluginHeader

\* lines 279-286: the section put at the end of the text
AppendPluginSection(config, module) ==
    [sec \in DOMAIN config \cup {PluginSection} |->
        IF sec = PluginSection
        THEN [opt \in {"django_settings_module"} |-> module]
        ELSE config[sec]]

\* lines 269-289: the new scenario.info.mypy_configuration_content
set_mypy_config(content, fragment, module) ==
    LET merged == combine_ini_files(content, fragment)
    IN  IF ~HeaderInText(merged) THEN AppendPluginSection(merged, module) ELSE merged

\* ------------------------------------------------------------------------
\* ScenarioRunner.execute_static_checking and sys.path (scenario.py 183-195)
\* ------------------------------------------------------------------------

\* The longest sys.path before the first scenario
MaxPath == 2

\* The most scenarios checked one after another
MaxScenarios == 2

\* The working directories of the scenarios
ScenarioDirs == {"/tmp/scenario0", "/tmp/scenario1"}

\* What sys.path may hold
PathEntries == {"/site-packages"} \cup ScenarioDirs

\* lines 186-187
EnterSysPath(path, cwd, was_in_path) ==
    IF ~was_in_path THEN Append(path, cwd) ELSE path

\* lines 193-195 with the finally clause doing nothing
LeaveSysPathKeeping(path, cwd, was_in_path) == path

\* lines 193-195, the finally clause
LeaveSysPath(path, cwd, was_in_path) ==
    IF ~was_in_path /\ Contains(path, cwd) THEN ListRemove(path, cwd) ELSE path

\* ------------------------------------------------------------------------
\* The idle values of each part's variables
\* ------------------------------------------------------------------------

ArgsIdle ==
    /\ options = [args |-> <<>>, do_followup |-> FALSE]
    /\ disable_cache = FALSE
    /\ shared_cache = NoCache
    /\ is_daemon = FALSE
    /\ os_name = "posix"
    /\ adjusted = options
    /\ args_pc = "start"

NoItem == [case |-> <<>>, skip |-> [is_bool |-> TRUE, text |-> "False"], other_keys |-> {}]

CompileIdle ==
    /\ gen_pc = "created"
    /\ doc_idx = 0
    /\ raw_item = NoItem
    /\ params = <<>>
    /\ by_keys = EmptyDict
    /\ parametrized = <<>>
    /\ var_idx = 0
    /\ yielded = <<>>
    /\ n_items = 0
    /\ error = "none"

AppsIdle ==
    /\ installed_apps = <<>>
    /\ settings_apps = <<>>
    /\ apps_pc = "start"
    /\ custom_has_apps = FALSE

SettingsIdle ==
    /\ custom_settings = <<>>
    /\ settings_exists = FALSE
    /\ settings_file = <<>>
    /\ monkeypatch = FALSE
    /\ synth_runs = 0

RunIdle ==
    /\ item_params = EmptyDict
    /\ main = <<>>
    /\ case_files = <<>>
    /\ written = EmptyDict
    /\ run_pc = "start"

ConfigIdle ==
    /\ mypy_configuration_content = DefaultConfiguration
    /\ django_settings_module = "mysettings"
    /\ mypy_config = EmptyDict
    /\ config_calls = 0

PathIdle ==
    /\ sys_path = <<>>
    /\ options_cwd = ""
    /\ options_cwd_in_path = FALSE
    /\ path_pc = "idle"
    /\ scenarios_checked = 0
    /\ sys_path_at_start = <<>>

CacheIdle ==
    /\ files = {}
    /\ dirs = {cache_dir}
    /\ cleaned = <<>>
    /\ removed_files = {}
    /\ removed_dirs = {}

\* ------------------------------------------------------------------------
\* The argument derivation: SpecArgs
\* ------------------------------------------------------------------------

InitArgs ==
    /\ options \in [args : SeqUpTo(ArgTokens, MaxArgs), do_followup : BOOLEAN]
    /\ disable_cache \in BOOLEAN
    /\ shared_cache \in {NoCache, SharedCacheDir}
    /\ is_daemon \in BOOLEAN
    /\ os_name \in OsNames
    /\ adjusted = options
    /\ args_pc = "start"
    /\ CacheIdle
    /\ CompileIdle
    /\ AppsIdle
    /\ SettingsIdle
    /\ RunIdle
    /\ ConfigIdle
    /\ PathIdle

\* execute_static_checking line 208: options = self._adjust_mypy_args(options)
AdjustMypyArgs ==
    /\ args_pc = "start"
    /\ args_pc' = "done"
    /\ adjusted' = _adjust_mypy_args(options, disable_cache, shared_cache, is_daemon, os_name)
    /\ UNCHANGED <<options, disable_cache, shared_cache, is_daemon, os_name>>
    /\ UNCHANGED <<cacheVars, compileVars, appsVars, settingsVars, runVars, configVars, pathVars>>

NextArgs == AdjustMypyArgs

SpecArgs == InitArgs /\ [][NextArgs]_vars

\* ---- claims about _adjust_mypy_args

\* The positions of "--cache-dir" in an argument list
CacheDirAt(a) == {i \in 1..Len(a) : a[i] = "--cache-dir"}

\* The argument list ends with "--cache-dir <target>" and names "--cache-dir"
\* nowhere else
OnlyCacheDirPairIs(a, target) ==
    /\ Len(a) >= 2
    /\ CacheDirAt(a) = {Len(a) - 1}
    /\ a[Len(a)] = target

\* Every "--cache-dir" of the argument list is followed by a directory: the
\* starting lists a command line parser accepts
CacheDirsHaveValues(a) ==
    \A i \in CacheDirAt(a) : i < Len(a) /\ a[i + 1] \notin {"--cache-dir", "--incremental", "--no-incremental"}

\* C1: with disable_cache set and a runner that is not a daemon, the returned
\* arguments hold no "--incremental", hold "--no-incremental", hold a single
\* "--cache-dir" pair, the appended null target, and do_followup is False.
\* Stated for the starting lists whose every "--cache-dir" has its directory,
\* "--cache-dir", "--incremental" or "--no-incremental" occurring any number
\* of times.
C1_DisabledModeResult ==
    (args_pc = "done" /\ disable_cache /\ ~is_daemon /\ CacheDirsHaveValues(options.args)) =>
        /\ ~Contains(adjusted.args, "--incremental")
        /\ Contains(adjusted.args, "--no-incremental")
        /\ OnlyCacheDirPairIs(adjusted.args, NullCacheDir(os_name))
        /\ adjusted.do_followup = FALSE

\* C2: with a shared cache attached, disable_cache not set and a runner that is
\* not a daemon, the returned arguments hold "--incremental", hold no
\* "--no-incremental", hold a single "--cache-dir" pair, the shared cache root,
\* at their end, and do_followup is as it was. Stated for the starting lists
\* whose every "--cache-dir" has its directory.
C2_SharedModeResult ==
    (args_pc = "done" /\ ~disable_cache /\ shared_cache # NoCache /\ ~is_daemon
        /\ CacheDirsHaveValues(options.args)) =>
        /\ Contains(adjusted.args, "--incremental")
        /\ ~Contains(adjusted.args, "--no-incremental")
        /\ OnlyCacheDirPairIs(adjusted.args, shared_cache)
        /\ adjusted.do_followup = options.do_followup

\* What the disabled mode returns for the options o when no shared cache is
\* attached: the reference C3 compares with
DisabledOnly(o, daemon, os) == _adjust_mypy_args(o, TRUE, NoCache, daemon, os)

\* C3: with disable_cache set and a shared cache attached, the result is the
\* one obtained with disable_cache set and no shared cache attached, for
\* either kind of runner, and the shared cache root is not among the returned
\* arguments.
C3_DisabledTakesPrecedence ==
    (args_pc = "done" /\ disable_cache /\ shared_cache # NoCache) =>
        /\ adjusted = DisabledOnly(options, is_daemon, os_name)
        /\ ~Contains(adjusted.args, shared_cache)

C3_Witness ==
    /\ args_pc = "done" /\ disable_cache /\ shared_cache # NoCache
    /\ Contains(options.args, "--cache-dir")
    /\ Contains(options.args, "--no-incremental")
    /\ options.do_followup

\* C4 as claimed: with disable_cache set and a daemon runner, the call changes
\* nothing: the arguments and do_followup are returned as they were handed in.
C4_DaemonSkipsDisabledMode ==
    (args_pc = "done" /\ disable_cache /\ is_daemon) => adjusted = options

\* The argument list a without its first "--cache-dir" and the element after
\* it; a itself when "--cache-dir" does not occur or occurs first as the last
\* element
WithoutFirstCacheDirPair(a) ==
    IF CacheDirAt(a) = {} THEN a
    ELSE LET i == CHOOSE k \in CacheDirAt(a) : \A j \in CacheDirAt(a) : k <= j
         IN  IF i = Len(a) THEN a
             ELSE [k \in 1..(Len(a) - 2) |-> IF k < i THEN a[k] ELSE a[k + 2]]

\* C4, amended: with disable_cache set and a daemon runner, only the
\* "--incremental"/"--no-incremental" step is skipped: the returned arguments
\* are the starting ones without their first "--cache-dir" pair, followed by
\* "--cache-dir <null target>", and do_followup is False.
C4_DaemonSkipsIncrementalFlagsOnly ==
    (args_pc = "done" /\ disable_cache /\ is_daemon) =>
        /\ adjusted.args =
               WithoutFirstCacheDirPair(options.args) \o <<"--cache-dir", NullCacheDir(os_name)>>
        /\ adjusted.do_followup = FALSE

C4_Witness ==
    /\ args_pc = "done" /\ disable_cache /\ is_daemon
    /\ Contains(options.args, "--incremental")
    /\ ~Contains(options.args, "--no-incremental")
    /\ Contains(adjusted.args, "--incremental")
    /\ options.do_followup


\* ------------------------------------------------------------------------
\* The shared cache: SpecCache
\* ------------------------------------------------------------------------

\* The shared_cache fixture has made the cache root (plugin.py 24-26); files
\* of the user may lie outside it
InitCache ==
    /\ files \in SUBSET OutsideFiles
    /\ dirs = {cache_dir} \cup UNION {Ancestors(f) : f \in files}
    /\ cleaned = <<>>
    /\ removed_files = {}
    /\ removed_dirs = {}
    /\ ArgsIdle
    /\ CompileIdle
    /\ AppsIdle
    /\ SettingsIdle
    /\ RunIdle
    /\ ConfigIdle
    /\ PathIdle

\* The checker, run with --cache-dir <cache root>, writes the cache entry of a
\* module it analysed, making the directories above it
CheckerWritesCache(path) ==
    /\ files' = files \cup CacheEntry(path)
    /\ dirs' = dirs \cup UNION {Ancestors(f) : f \in CacheEntry(path)}
    /\ UNCHANGED <<cleaned, removed_files, removed_dirs>>
    /\ UNCHANGED <<argsVars, compileVars, appsVars, settingsVars, runVars, configVars, pathVars>>

\* A scenario's teardown runs the clean_shared_cache cleaner over its known
\* files
CleanSharedCache(known_files) ==
    LET fs == clean_shared_cache(known_files, 1, [files |-> files, dirs |-> dirs])
    IN  /\ files' = fs.files
        /\ dirs' = fs.dirs
        /\ cleaned' = known_files
        /\ removed_files' = files \ fs.files
        /\ removed_dirs' = dirs \ fs.dirs
        /\ UNCHANGED <<argsVars, compileVars, appsVars, settingsVars, runVars, configVars, pathVars>>

NextCache ==
    \/ \E path \in RelativeSourcePaths : CheckerWritesCache(path)
    \/ \E known_files \in KnownFiles : CleanSharedCache(known_files)

SpecCache == InitCache /\ [][NextCache]_vars

\* ---- claims about remove_cache_for

\* Every file and directory on disk lies in a directory on disk: a directory
\* removed while it held something would leave its entries behind
NoOrphans ==
    /\ \A f \in files : Len(f) >= 2 => Parent(f) \in dirs
    /\ \A d \in dirs : Len(d) >= 2 => Parent(d) \in dirs

\* The walk of remove_cache_for(path) has left no empty directory where it
\* had to remove one: the nearest ancestor of the cache entry that exists and
\* lies below the cache root holds something
PrunedAbove(path) ==
    LET below == {d \in Ancestors(CacheEntryBase(path)) \cap dirs :
                     d # cache_dir /\ is_relative_to(d, cache_dir)}
    IN  \A d \in below :
            (\A e \in below : Len(e) <= Len(d)) => Entries(d, files, dirs) # {}


\* The relative source paths the last teardown evicted
EvictedRelative == {cleaned[i] : i \in 1..Len(cleaned)} \cap RelativeSourcePaths

\* C5, the safety half: the cache root is on disk and no directory was removed
\* while it held something.
C5_RootKeptAndOnlyEmptyDirsRemoved ==
    /\ cache_dir \in dirs
    /\ cache_dir \notin removed_dirs
    /\ NoOrphans

\* C5, the walk: above every evicted cache entry the empty directories are
\* gone, up to the first directory that holds something or to the cache root.
C5_EmptyParentsPruned == \A path \in EvictedRelative : PrunedAbove(path)

C6_OnlyOwnEntriesEvicted ==
    /\ \A q \in RelativeSourcePaths :
           (\A i \in 1..Len(cleaned) : cleaned[i] # q) => CacheEntry(q) \cap removed_files = {}
    /\ \A f \in removed_files : is_relative_to(f, cache_dir)

\* C6 for the relative source paths alone: no cache entry of another path is
\* removed.
C6_RelativeOnly ==
    (\A i \in 1..Len(cleaned) : ~cleaned[i].absolute) =>
        \A q \in RelativeSourcePaths :
            (\A i \in 1..Len(cleaned) : cleaned[i] # q) => CacheEntry(q) \cap removed_files = {}

\* ------------------------------------------------------------------------
\* The case compiler: SpecCompile
\*
\* from_yaml is a generator and collect() draws from it (collect.py 95-103).
\* The batch is read in order: each mapping of a document's `parametrized`
\* is drawn when _parse_parametrized reaches it (line 23), and the rest of the
\* document when lines 134-140 read it.
\* ------------------------------------------------------------------------

InitCompile ==
    /\ CompileIdle
    /\ ArgsIdle
    /\ CacheIdle
    /\ AppsIdle
    /\ SettingsIdle
    /\ RunIdle
    /\ ConfigIdle
    /\ PathIdle

\* from_yaml raises: the generator is finished
Raise(exception) ==
    /\ gen_pc' = "raised"
    /\ error' = exception

\* lines 86-93: the first next() validates the whole batch against the schema
ValidateBatch(valid) ==
    /\ gen_pc = "created"
    /\ IF valid
       THEN gen_pc' = "next_doc" /\ error' = error
       ELSE Raise("ValidationError")
    /\ UNCHANGED <<doc_idx, raw_item, params, by_keys, parametrized, var_idx, yielded, n_items>>
    /\ UNCHANGED <<argsVars, cacheVars, appsVars, settingsVars, runVars, configVars, pathVars>>

\* lines 95-131: the loop takes the next document and calls
\* _parse_parametrized on its `parametrized` (line 22)
BeginDocument ==
    /\ gen_pc = "next_doc"
    /\ doc_idx < MaxDocs
    /\ doc_idx' = doc_idx + 1
    /\ raw_item' = NoItem
    /\ params' = <<>>
    /\ by_keys' = EmptyDict
    /\ parametrized' = <<>>
    /\ var_idx' = 0
    /\ yielded' = <<>>
    /\ gen_pc' = "parse"
    /\ UNCHANGED <<n_items, error>>
    /\ UNCHANGED <<argsVars, cacheVars, appsVars, settingsVars, runVars, configVars, pathVars>>

\* line 95: the batch has no further document; the generator returns
EndOfBatch ==
    /\ gen_pc = "next_doc"
    /\ gen_pc' = "exhausted"
    /\ UNCHANGED <<doc_idx, raw_item, params, by_keys, parametrized, var_idx, yielded, n_items, error>>
    /\ UNCHANGED <<argsVars, cacheVars, appsVars, settingsVars, runVars, configVars, pathVars>>

\* lines 23-32: one turn of the loop over the mappings
ParseParam(param) ==
    /\ gen_pc = "parse"
    /\ Len(params) < MaxParams
    /\ params' = Append(params, param)
    /\ IF KeysMismatch(by_keys, KeysOf(param))
       THEN Raise("ValueError: same keys") /\ by_keys' = by_keys
       ELSE /\ by_keys' = AppendByKeys(by_keys, KeysOf(param), StripDunderKeys(param))
            /\ UNCHANGED <<gen_pc, error>>
    /\ UNCHANGED <<doc_idx, raw_item, parametrized, var_idx, yielded, n_items>>
    /\ UNCHANGED <<argsVars, cacheVars, appsVars, settingsVars, runVars, configVars, pathVars>>

\* lines 18-20 and 34-39: what _parse_parametrized yields once the mappings
\* are read
ParsedParams(ps, bk) ==
    IF Len(ps) = 0 THEN <<EmptyDict>>
    ELSE bk[CHOOSE keys \in DOMAIN bk : TRUE]

\* lines 34-36, 131-140: the mappings are read; the variants are listed, the
\* remaining keys are checked against the fields and the record is built
BuildRecord(item) ==
    /\ gen_pc = "parse"
    /\ raw_item' = item
    /\ IF Len(params) > 0 /\ Cardinality(DOMAIN by_keys) # 1
       THEN Raise("ValueError: same keys") /\ parametrized' = parametrized
       ELSE IF UnknownField(item)
       THEN Raise("AssertionError") /\ parametrized' = ParsedParams(params, by_keys)
       ELSE IF InvalidCaseName(item)
       THEN Raise("ValueError: test name") /\ parametrized' = ParsedParams(params, by_keys)
       ELSE /\ parametrized' = ParsedParams(params, by_keys)
            /\ gen_pc' = "variants"
            /\ error' = error
    /\ UNCHANGED <<doc_idx, params, by_keys, var_idx, yielded, n_items>>
    /\ UNCHANGED <<argsVars, cacheVars, appsVars, settingsVars, runVars, configVars, pathVars>>

\* lines 141-148: one turn of the loop over the variants; a clone that is not
\* skipped is yielded and collect() yields its item (collect.py 96-103)
NextVariant ==
    /\ gen_pc = "variants"
    /\ var_idx < Len(parametrized)
    /\ var_idx' = var_idx + 1
    /\ IF ~_run_skip(raw_item.skip)
       THEN /\ yielded' = Append(yielded, parametrized[var_idx + 1])
            /\ n_items' = n_items + 1
       ELSE UNCHANGED <<yielded, n_items>>
    /\ gen_pc' = IF var_idx + 1 = Len(parametrized) THEN "next_doc" ELSE "variants"
    /\ UNCHANGED <<doc_idx, raw_item, params, by_keys, parametrized, error>>
    /\ UNCHANGED <<argsVars, cacheVars, appsVars, settingsVars, runVars, configVars, pathVars>>

NextCompile ==
    \/ \E valid \in BOOLEAN : ValidateBatch(valid)
    \/ BeginDocument
    \/ EndOfBatch
    \/ \E param \in Mappings : ParseParam(param)
    \/ \E item \in RawItems : BuildRecord(item)
    \/ NextVariant

SpecCompile == InitCompile /\ [][NextCompile]_vars

\* ---- claims about the case compiler

\* The document read last got through _parse_parametrized and the building
\* of its record without an error
RecordBuilt == gen_pc \in {"variants", "next_doc", "exhausted"} /\ doc_idx > 0

\* The document read last has been compiled to its end
DocumentCompiled == gen_pc \in {"next_doc", "exhausted"} /\ doc_idx > 0

\* All the mappings have the same set of keys
SameKeySets(ps) == \A i, j \in 1..Len(ps) : DOMAIN ps[i] = DOMAIN ps[j]

\* The mappings of the document whose skip predicate evaluates false
NotSkipped == {i \in 1..Len(params) : ~_run_skip(raw_item.skip)}

\* C7, the count and the order: a document with a non-empty `parametrized`
\* compiled to its end has yielded as many variants as it has mappings whose
\* skip predicate is false, the i-th variant holding values of the i-th of
\* them.
C7_OneVariantPerUnskippedMapping ==
    (DocumentCompiled /\ Len(params) > 0) =>
        /\ Len(yielded) = Cardinality(NotSkipped)
        /\ \A i \in 1..Len(yielded) :
               \A k \in DOMAIN yielded[i] : k \in DOMAIN params[i] /\ yielded[i][k] = params[i][k]

\* C7: for a non-empty `parametrized`, mappings with different key sets make
\* the compiling raise (so a document that got past it has mappings with one
\* key set), and with identical key sets the variants yielded are the
\* mappings whose skip predicate is false, in input order.
C7_KeySetsCheckedAndVariantsCounted ==
    /\ (RecordBuilt /\ Len(params) > 0) => SameKeySets(params)
    /\ C7_OneVariantPerUnskippedMapping

\* The errors C8 names: a batch that fails the schema, mappings with
\* different keys, a key that is no field
ShapeErrors == {"ValidationError", "ValueError: same keys", "AssertionError"}

WithoutKeysStarting(param, prefix) ==
    [k \in {x \in DOMAIN param :
                ~(Len(x) >= Len(prefix) /\ \A i \in 1..Len(prefix) : x[i] = prefix[i])}
        |-> param[k]]

InitApps ==
    /\ installed_apps \in SeqUpTo(AppEntries, MaxApps)
    /\ settings_apps \in ExistingApps
    /\ apps_pc = "start"
    /\ custom_has_apps \in BOOLEAN
    /\ ArgsIdle
    /\ CacheIdle
    /\ CompileIdle
    /\ SettingsIdle
    /\ RunIdle
    /\ ConfigIdle
    /\ PathIdle

\* The ListVariableChanger of line 137 calls change_installed_apps with the
\* elements of the INSTALLED_APPS list and puts what it returns in their place
ChangeInstalledApps ==
    /\ apps_pc = "start"
    /\ ~custom_has_apps
    /\ apps_pc' = "done"
    /\ settings_apps' = change_installed_apps(settings_apps, installed_apps)
    /\ UNCHANGED <<installed_apps, custom_has_apps>>
    /\ UNCHANGED <<argsVars, cacheVars, compileVars, settingsVars, runVars, configVars, pathVars>>

\* lines 142-146: custom settings that hold "INSTALLED_APPS" take the changer
\* away (del variable_changers["INSTALLED_APPS"]); the list stays as written
KeepInstalledApps ==
    /\ apps_pc = "start"
    /\ custom_has_apps
    /\ apps_pc' = "kept"
    /\ UNCHANGED <<installed_apps, settings_apps, custom_has_apps>>
    /\ UNCHANGED <<argsVars, cacheVars, compileVars, settingsVars, runVars, configVars, pathVars>>

NextApps ==
    \/ ChangeInstalledApps
    \/ KeepInstalledApps

SpecApps == InitApps /\ [][NextApps]_vars

\* ---- claims about change_installed_apps

\* The declared elements that are apps (strings), in declared order
DeclaredApps == SelectSeq(installed_apps, LAMBDA app : app.type = "str")

\* s is t with some elements left out
RECURSIVE IsSubsequence(_, _)
IsSubsequence(s, t) ==
    IF Len(s) = 0 THEN TRUE
    ELSE IF Len(t) = 0 THEN FALSE
    ELSE IF Head(s) = Head(t) THEN IsSubsequence(Tail(s), Tail(t))
    ELSE IsSubsequence(s, Tail(t))

\* C10 as claimed: whatever the declared list, the produced list starts with
\* the contenttypes app, holds it exactly once, and holds every declared app
\* in declared order.
C10_ContentTypesFirstAndOnce ==
    (apps_pc = "done") =>
        /\ Len(settings_apps) >= 1
        /\ settings_apps[1] = ContentTypes
        /\ ListCount(settings_apps, ContentTypes) = 1
        /\ IsSubsequence(DeclaredApps, settings_apps)

\* C10, amended: the produced list holds the contenttypes app and every
\* declared app in declared order. When the declared list does not hold the
\* contenttypes app, it is put first, once, before the declared apps; when the
\* declared list holds it, the produced list is the declared apps as they are:
\* it is neither added again nor moved.
C10_ContentTypesPresent ==
    (apps_pc = "done") =>
        /\ Contains(settings_apps, ContentTypes)
        /\ IsSubsequence(DeclaredApps, settings_apps)
        /\ ~Contains(installed_apps, ContentTypes) =>
               /\ settings_apps[1] = ContentTypes
               /\ ListCount(settings_apps, ContentTypes) = 1
               /\ Tail(settings_apps) = DeclaredApps
        /\ Contains(installed_apps, ContentTypes) => settings_apps = DeclaredApps

\* The contenttypes app declared after another app
C10_Witness ==
    /\ apps_pc = "done"
    /\ Len(installed_apps) >= 2
    /\ installed_apps[1] = Str("a.app")
    /\ installed_apps[2] = ContentTypes
    /\ settings_apps[2] = ContentTypes

\* The contenttypes app not declared
C10_WitnessInserted ==
    /\ apps_pc = "done"
    /\ installed_apps = <<Str("a.app")>>
    /\ settings_apps = <<ContentTypes, Str("a.app")>>

\* C11 as claimed: an entry the INSTALLED_APPS list holds before the edit,
\* and that is not among the declared apps, is still in the list after it.
C11_ExistingEntriesPreserved ==
    [][\A k \in 1..Len(settings_apps) :
           ~Contains(installed_apps, settings_apps[k])
               => Contains(settings_apps', settings_apps[k])]_vars

\* What does hold of the entries the list held: they stay only when the
\* custom settings own the list; the changer puts the declared apps in their
\* place.
C11_ExistingEntriesReplaced ==
    [][/\ (apps_pc' = "kept") => settings_apps' = settings_apps
       /\ (apps_pc' = "done") =>
              \A k \in 1..Len(settings_apps') :
                  \/ settings_apps'[k] = ContentTypes
                  \/ Contains(installed_apps, settings_apps'[k])]_vars

\* ------------------------------------------------------------------------
\* The settings text over repeated synthesis runs: SpecSettings
\* ------------------------------------------------------------------------

\* A case brings its settings as custom_settings, as a file, or not at all
InitSettings ==
    /\ \E text \in SourceTexts, as_file \in BOOLEAN :
           /\ custom_settings = (IF as_file THEN <<>> ELSE text)
           /\ settings_exists = as_file
           /\ settings_file = (IF as_file THEN text ELSE <<>>)
    /\ monkeypatch \in BOOLEAN
    /\ synth_runs = 0
    /\ ArgsIdle
    /\ CacheIdle
    /\ CompileIdle
    /\ AppsIdle
    /\ RunIdle
    /\ ConfigIdle
    /\ PathIdle

\* execute_static_checking lines 190-200: the settings text is synthesized and
\* written to the settings file
SynthesizeSettings ==
    /\ synth_runs < MaxRuns
    /\ settings_file' = determine_django_settings_content(
                            custom_settings, settings_exists, settings_file, monkeypatch)
    /\ settings_exists' = TRUE
    /\ synth_runs' = synth_runs + 1
    /\ UNCHANGED <<custom_settings, monkeypatch>>
    /\ UNCHANGED <<argsVars, cacheVars, compileVars, appsVars, runVars, configVars, pathVars>>

NextSettings == SynthesizeSettings

SpecSettings == InitSettings /\ [][NextSettings]_vars

\* ---- claims about the monkeypatch snippet

\* The places of a text where the snippet stands
SnippetAt(text) ==
    {k \in 1..Len(text) :
        /\ k + Len(monkeypatch_str) - 1 <= Len(text)
        /\ SubSeq(text, k, k + Len(monkeypatch_str) - 1) = monkeypatch_str}

\* C12 as claimed: after any number of runs the snippet stands exactly once,
\* at the top, when the toggle is set, and nowhere when it is not.
C12_SnippetOnceAtTopOrNowhere ==
    (synth_runs >= 1) =>
        SnippetAt(settings_file) = (IF monkeypatch THEN {1} ELSE {})

\* C12 as claimed, second half: a run over the text of the run before leaves
\* the text as it is.
C12_SecondRunChangesNothing ==
    [][(synth_runs >= 1) => settings_file' = settings_file]_vars

\* What holds of every run: when taking the snippet out of the text leaves no
\* snippet behind, the synthesized text has it once at the top or nowhere.
C12_OnceWhenRemovalLeavesNone ==
    [][(LET text == WithSecretKey(AfterChange(custom_settings, settings_exists, settings_file))
        IN  SnippetAt(Replace(text, monkeypatch_str)) = {})
       => SnippetAt(settings_file') = (IF monkeypatch THEN {1} ELSE {})]_vars

\* ------------------------------------------------------------------------
\* Running one variant: SpecRun
\* ------------------------------------------------------------------------

InitRun ==
    /\ item_params \in ItemParams
    /\ main \in Contents
    /\ case_files \in SeqUpTo(FileEntries, MaxFiles)
    /\ written = EmptyDict
    /\ run_pc = "start"
    /\ ArgsIdle
    /\ CacheIdle
    /\ CompileIdle
    /\ AppsIdle
    /\ SettingsIdle
    /\ ConfigIdle
    /\ PathIdle

\* definition.py 180-183: main.py is set to the rendered main, then every
\* entry of files is set
RunTest ==
    /\ run_pc = "start"
    /\ run_pc' = "done"
    /\ written' = SetFiles(SetFile(written, "main.py", render_template(main, item_params)),
                           case_files, 1)
    /\ UNCHANGED <<item_params, main, case_files>>
    /\ UNCHANGED <<argsVars, cacheVars, compileVars, appsVars, settingsVars, configVars, pathVars>>

NextRun == RunTest

SpecRun == InitRun /\ [][NextRun]_vars

\* ---- claims about the files of a variant

\* The entry of files that sets its path last
LastEntryOfPath(k) ==
    \A j \in (k + 1)..Len(case_files) : case_files[j].path # case_files[k].path

\* `content or ""`
ContentOrEmpty(entry) == IF entry.is_none THEN <<>> ELSE entry.content

\* C13 as claimed: every declared file is written as render_template gives it
\* for the variant's item_params, as main is: rendered when it holds the
\* marker, verbatim when it does not.
C13_FilesTemplated ==
    (run_pc = "done") =>
        \A k \in 1..Len(case_files) :
            LastEntryOfPath(k) =>
                written[case_files[k].path]
                    = render_template(ContentOrEmpty(case_files[k]), item_params)

\* What holds: main.py is the rendered main and every declared file is its
\* content as declared, marker or not.
C13_MainRenderedFilesVerbatim ==
    (run_pc = "done") =>
        /\ written["main.py"] = render_template(main, item_params)
        /\ \A k \in 1..Len(case_files) :
               LastEntryOfPath(k) =>
                   written[case_files[k].path] = ContentOrEmpty(case_files[k])

\* ------------------------------------------------------------------------
\* The checker configuration of one scenario: SpecConfig
\* ------------------------------------------------------------------------

InitConfig ==
    /\ mypy_configuration_content = DefaultConfiguration
    /\ django_settings_module \in SettingsModules
    /\ mypy_config = EmptyDict
    /\ config_calls = 0
    /\ ArgsIdle
    /\ CacheIdle
    /\ CompileIdle
    /\ AppsIdle
    /\ SettingsIdle
    /\ RunIdle
    /\ PathIdle

\* builder.set_mypy_config(fragment, ...) on the scenario
SetMypyConfig(fragment) ==
    /\ config_calls < MaxCalls
    /\ mypy_configuration_content'
           = set_mypy_config(mypy_configuration_content, fragment, django_settings_module)
    /\ mypy_config' = fragment
    /\ config_calls' = config_calls + 1
    /\ UNCHANGED django_settings_module
    /\ UNCHANGED <<argsVars, cacheVars, compileVars, appsVars, settingsVars, runVars, pathVars>>

NextConfig == \E fragment \in Fragments : SetMypyConfig(fragment)

SpecConfig == InitConfig /\ [][NextConfig]_vars

\* ---- claims about set_mypy_config

\* How often the text ConfigParser writes for `config` holds the header text
HeaderOccurrences(config) ==
    (IF PluginSection \in DOMAIN config THEN 1 ELSE 0)
    + Cardinality({<<sec, opt>> \in
          UNION {{<<s, o>> : o \in DOMAIN config[s]} : s \in DOMAIN config} :
          config[sec][opt] = PluginHeader})

\* The options the last fragment wrote in the plugin section are in the
\* configuration as written
CaseSectionKept ==
    (PluginSection \in DOMAIN mypy_config) =>
        /\ PluginSection \in DOMAIN mypy_configuration_content
        /\ \A opt \in DOMAIN mypy_config[PluginSection] :
               /\ opt \in DOMAIN mypy_configuration_content[PluginSection]
               /\ mypy_configuration_content[PluginSection][opt]
                      = mypy_config[PluginSection][opt]

\* C14 as claimed: after any sequence of set_mypy_config calls the
\* configuration has the plugin section, its header stands in the text exactly
\* once, and a section the case supplied is as the case wrote it.
C14_PluginSectionExactlyOnce ==
    (config_calls >= 1) =>
        /\ PluginSection \in DOMAIN mypy_configuration_content
        /\ HeaderOccurrences(mypy_configuration_content) = 1
        /\ CaseSectionKept

\* What holds: the header text is in the configuration, the section is there
\* whenever no value of the configuration holds the header text, and a section
\* the case supplied is as written.
C14_SectionUnlessValueHoldsHeader ==
    (config_calls >= 1) =>
        /\ CaseSectionKept
        /\ HeaderOccurrences(mypy_configuration_content) >= 1
        /\ (\A sec \in DOMAIN mypy_configuration_content :
                \A opt \in DOMAIN mypy_configuration_content[sec] :
                    mypy_configuration_content[sec][opt] # PluginHeader)
               => PluginSection \in DOMAIN mypy_configuration_content

\* ------------------------------------------------------------------------
\* sys.path over the scenarios of a session: SpecPath
\* ------------------------------------------------------------------------

InitPath ==
    /\ sys_path \in SeqUpTo(PathEntries, MaxPath)
    /\ sys_path_at_start = sys_path
    /\ options_cwd = ""
    /\ options_cwd_in_path = FALSE
    /\ path_pc = "idle"
    /\ scenarios_checked = 0
    /\ ArgsIdle
    /\ CacheIdle
    /\ CompileIdle
    /\ AppsIdle
    /\ SettingsIdle
    /\ RunIdle
    /\ ConfigIdle

\* lines 183-187: a scenario is checked; its working directory is put in
\* sys.path unless it is there
BeginSynthesis(cwd) ==
    /\ path_pc # "synthesizing"
    /\ scenarios_checked < MaxScenarios
    /\ options_cwd' = cwd
    /\ options_cwd_in_path' = Contains(sys_path, cwd)
    /\ sys_path' = EnterSysPath(sys_path, cwd, Contains(sys_path, cwd))
    /\ path_pc' = "synthesizing"
    /\ scenarios_checked' = scenarios_checked + 1
    /\ UNCHANGED sys_path_at_start
    /\ UNCHANGED <<argsVars, cacheVars, compileVars, appsVars, settingsVars, runVars, configVars>>

\* lines 190-195: determine_django_settings_content returns; finally
SynthesisReturns ==
    /\ path_pc = "synthesizing"
    /\ sys_path' = LeaveSysPath(sys_path, options_cwd, options_cwd_in_path)
    /\ path_pc' = "returned"
    /\ UNCHANGED <<options_cwd, options_cwd_in_path, scenarios_checked, sys_path_at_start>>
    /\ UNCHANGED <<argsVars, cacheVars, compileVars, appsVars, settingsVars, runVars, configVars>>

\* lines 190-195: determine_django_settings_content raises; finally, and the
\* exception leaves execute_static_checking
SynthesisRaises ==
    /\ path_pc = "synthesizing"
    /\ sys_path' = LeaveSysPath(sys_path, options_cwd, options_cwd_in_path)
    /\ path_pc' = "raised"
    /\ UNCHANGED <<options_cwd, options_cwd_in_path, scenarios_checked, sys_path_at_start>>
    /\ UNCHANGED <<argsVars, cacheVars, compileVars, appsVars, settingsVars, runVars, configVars>>

NextPath ==
    \/ \E cwd \in ScenarioDirs : BeginSynthesis(cwd)
    \/ SynthesisReturns
    \/ SynthesisRaises

SpecPath == InitPath /\ [][NextPath]_vars

\* ---- claims about sys.path

\* C15: the working directory is in sys.path while the settings are
\* synthesized; once synthesis has returned or raised it is in sys.path if and
\* only if it was there before the call; and outside synthesis sys.path is
\* what it was before the first scenario, so no working directory has leaked.
C15_SysPathLeftAsFound ==
    /\ (path_pc = "synthesizing") => Contains(sys_path, options_cwd)
    /\ (path_pc \in {"returned", "raised"}) =>
           (Contains(sys_path, options_cwd) <=> options_cwd_in_path)
    /\ (path_pc # "synthesizing") => sys_path = sys_path_at_start

\* The second scenario's synthesis has raised, its working directory was not
\* in sys.path before and is not there now
C15_Witness ==
    /\ path_pc = "raised"
    /\ scenarios_checked = 2
    /\ ~options_cwd_in_path
    /\ ~Contains(sys_path, options_cwd)
    /\ Len(sys_path) >= 1

====
